---- MODULE Spec2Model ----
(***************************************************************************)
(* mindjuice: a two-stage brainfuck interpreter (src/src/lib.rs).          *)
(*                                                                         *)
(* Stage one, parse_instructions, turns a character stream into a vector   *)
(* of instructions with the loop brackets resolved into jump targets.      *)
(* Stage two, execute_brainfuck, runs that vector on a 32768-cell tape of  *)
(* bytes under an iteration budget.                                        *)
(*                                                                         *)
(* Indices (jump targets, next_instruction, memory_position) are 0-based   *)
(* as in the source; TLA+ sequences are 1-based, so the instruction at     *)
(* index i of a vector v is v[i + 1] (operator At).                        *)
(***************************************************************************)
EXTENDS Integers, Sequences, FiniteSets, TLC

\* ------------------------------------------------------------------------
\* Bounds of the model
\* ------------------------------------------------------------------------

\* longest program text fed to the parser
MaxLen == 4

\* largest maximum_iterations a caller passes
MaxIter == 5

\* ------------------------------------------------------------------------
\* Characters
\* ------------------------------------------------------------------------

\* the six characters that map to an instruction without a payload
SimpleChars == {">", "<", "+", "-", ".", ","}

\* a character matched by the `_ => continue` arm
UnknownChars == {"x"}

Alphabet == SimpleChars \cup {"[", "]"} \cup UnknownChars

\* every program text of at most n characters
Texts(n) == UNION {[1..k -> Alphabet] : k \in 0..n}

\* ------------------------------------------------------------------------
\* Instructions
\* ------------------------------------------------------------------------

JumpToLeft(t) == [op |-> "JumpToLeft", target |-> t]

JumpToRight(t) == [op |-> "JumpToRight", target |-> t]

\* the payload-free arms of the match in parse_instructions
SimpleInstruction(c) ==
    CASE c = ">" -> [op |-> "MoveRight"]
      [] c = "<" -> [op |-> "MoveLeft"]
      [] c = "+" -> [op |-> "Increment"]
      [] c = "-" -> [op |-> "Decrement"]
      [] c = "." -> [op |-> "Output"]
      [] c = "," -> [op |-> "Input"]

\* the instruction at 0-based index i
At(v, i) == v[i + 1]

IsJumpToLeft(ins) == ins.op = "JumpToLeft"

IsJumpToRight(ins) == ins.op = "JumpToRight"

\* ------------------------------------------------------------------------
\* State
\* ------------------------------------------------------------------------

VARIABLES
    input_chars,            \* the characters the iterator `input` yields
    chars_pos,              \* how many of them the for loop has taken
    waiting_opening_jumps,  \* stack of positions of '[' not yet closed
    instructions,           \* the instruction vector being built
    parse_result,           \* "parsing", "Ok", or the Error returned
    exec_result,            \* "idle", "running", the termination condition
                            \* returned, "IOError" or "panic"
    overflow_checks,        \* the build checks integer overflow (debug profile)
    maximum_iterations,     \* the iteration budget passed by the caller
    iterations,             \* values the `for _ in 0..maximum_iterations` took
    memory,                 \* the tape: the non-zero cells, position -> byte
    memory_position,
    next_instruction,
    output,                 \* the bytes the output sink has received
    input_log,              \* the bytes the input source has delivered
    input_eof,              \* the source is exhausted: read returns Ok(0) for ever
    dispatched              \* number of instructions dispatched (history)

parse_vars == <<input_chars, chars_pos, waiting_opening_jumps, instructions,
                parse_result>>

exec_vars == <<exec_result, overflow_checks, maximum_iterations, iterations,
               memory, memory_position, next_instruction, output, input_log,
               input_eof, dispatched>>

vars == <<parse_vars, exec_vars>>

\* ------------------------------------------------------------------------
\* The tape and its arithmetic
\* ------------------------------------------------------------------------

MEMORY_SIZE == 32768

\* width of usize on the targets the crate is built for
UsizeBits == 64

\* [0u8; MEMORY_SIZE]: every cell is zero, so no cell is recorded
ZeroedMemory == [p \in {} |-> 0]

\* memory[p]
Cell(mem, p) == IF p \in DOMAIN mem THEN mem[p] ELSE 0

\* variant: the value is stored in the cell after the one asked for
StoreShifted(mem, p, v) ==
    LET q0 == (p + 1) % MEMORY_SIZE IN
    IF v = 0
    THEN [q \in DOMAIN mem \ {q0} |-> mem[q]]
    ELSE [q \in DOMAIN mem \cup {q0} |-> IF q = q0 THEN v ELSE mem[q]]

\* memory[p] = v
Store(mem, p, v) ==
    IF v = 0
    THEN [q \in DOMAIN mem \ {p} |-> mem[q]]
    ELSE [q \in DOMAIN mem \cup {p} |-> IF q = p THEN v ELSE mem[q]]

\* 2^bits modulo m
RECURSIVE Pow2Mod(_, _)
Pow2Mod(bits, m) == IF bits = 0 THEN 1 % m ELSE (2 * Pow2Mod(bits - 1, m)) % m

\* usize::MAX modulo m
UsizeMaxMod(m) == (Pow2Mod(UsizeBits, m) + m - 1) % m

\* memory_position += 1; memory_position %= MEMORY_SIZE
\* (memory_position < MEMORY_SIZE, so the addition never overflows a usize)
MovedRight(p) == (p + 1) % MEMORY_SIZE

\* memory_position -= 1 overflows a usize exactly at 0
MoveLeftOverflows(p) == p = 0

\* variant: the position is reduced modulo twice the length of the tape
MovedLeftWide(p) ==
    IF p = 0 THEN UsizeMaxMod(2 * MEMORY_SIZE) ELSE (p - 1) % (2 * MEMORY_SIZE)

\* memory_position -= 1 (wrapping to usize::MAX at 0); %= MEMORY_SIZE
MovedLeft(p) == IF p = 0 THEN UsizeMaxMod(MEMORY_SIZE) ELSE (p - 1) % MEMORY_SIZE

\* memory[memory_position] += 1 on a u8
IncrementOverflows(v) == v = 255

Incremented(v) == (v + 1) % 256

\* memory[memory_position] -= 1 on a u8
DecrementOverflows(v) == v = 0

Decremented(v) == (v + 255) % 256

\* variant: the byte itself is written
CharBytesRaw(v) == <<v>>

\* write!(output, "{}", byte as char): the UTF-8 encoding of the character
\* U+0000..U+00FF whose code point is the byte
CharBytes(v) ==
    IF v < 128 THEN <<v>> ELSE <<192 + (v \div 64), 128 + (v % 64)>>

\* the bytes an input source delivers in this model
InputBytes == {0, 65, 128, 255}

\* ------------------------------------------------------------------------
\* parse_instructions
\* ------------------------------------------------------------------------

\* let mut instructions = Vec::new()
NewVector(ins) == <<>>

\* let mut waiting_opening_jumps = Vec::new()
NewStack(waiting) == <<>>

\* a call of parse_instructions on the text
ParseCall(text) ==
    /\ input_chars = text
    /\ chars_pos = 0
    /\ waiting_opening_jumps = NewStack(<<>>)
    /\ instructions = NewVector(<<>>)
    /\ parse_result = "parsing"

ParseInit == \E text \in Texts(MaxLen) : ParseCall(text)

\* variant: the loop goes on taking characters after an error was returned
HasNextCharAfterError == chars_pos < Len(input_chars)

\* the for loop has another character to take
HasNextChar == parse_result = "parsing" /\ chars_pos < Len(input_chars)

NextChar == input_chars[chars_pos + 1]

\* the locals of parse_instructions, and what it has returned so far
ParserState ==
    [waiting |-> waiting_opening_jumps,
     instructions |-> instructions,
     result |-> parse_result]

\* waiting_opening_jumps.push(instructions.len())
PushOpening(waiting, ins) == Append(waiting, Len(ins))

\* variant: the position taken is the oldest one waiting
PoppedOldest(waiting) == waiting[1]

\* waiting_opening_jumps.pop(): the position popped, and the stack left
PoppedPosition(waiting) == waiting[Len(waiting)]

PoppedRest(waiting) == SubSeq(waiting, 1, Len(waiting) - 1)

\* variant: the placeholder is never overwritten
PatchLeftForgotten(ins, left_jump) == ins

\* instructions[left_jump] = Instruction::JumpToLeft(instructions.len())
PatchLeft(ins, left_jump) ==
    [ins EXCEPT ![left_jump + 1] = JumpToLeft(Len(ins))]

\* '>' '<' '+' '-' '.' ',' : push the instruction
OnSimple(st, c) ==
    [st EXCEPT !.instructions = Append(@, SimpleInstruction(c))]

\* '[' : remember the position, push the placeholder JumpToLeft(0)
OnLeftBracket(st) ==
    [st EXCEPT !.waiting = PushOpening(st.waiting, st.instructions),
               !.instructions = Append(@, JumpToLeft(0))]

\* ']' : pop the last '[' and link the pair, or return the error
OnRightBracket(st) ==
    IF st.waiting # <<>>
    THEN LET left_jump == PoppedPosition(st.waiting) IN
         [st EXCEPT !.waiting = PoppedRest(st.waiting),
                    !.instructions = Append(PatchLeft(st.instructions, left_jump),
                                            JumpToRight(left_jump))]
    ELSE [st EXCEPT !.result = "UnbalancedRightBracket"]

\* variant: an unknown character is compiled to an instruction
OnUnknownCompiled(st) ==
    [st EXCEPT !.instructions = Append(@, [op |-> "Increment"])]

\* any other character: `_ => continue`
OnUnknown(st) == st

\* variant: the check for brackets left open is missing
OnEndUnchecked(st) == [st EXCEPT !.result = "Ok"]

\* the check after the loop, and the return
OnEnd(st) ==
    [st EXCEPT !.result = IF st.waiting # <<>>
                          THEN "UnbalancedLeftBracket"
                          ELSE "Ok"]

\* one iteration of the for loop: the locals after the body has run on c
Take(st) ==
    /\ waiting_opening_jumps' = st.waiting
    /\ instructions' = st.instructions
    /\ parse_result' = st.result
    /\ chars_pos' = chars_pos + 1
    /\ UNCHANGED input_chars
    /\ UNCHANGED exec_vars

ParseSimple ==
    /\ HasNextChar
    /\ NextChar \in SimpleChars
    /\ Take(OnSimple(ParserState, NextChar))

ParseLeftBracket ==
    /\ HasNextChar
    /\ NextChar = "["
    /\ Take(OnLeftBracket(ParserState))

ParseRightBracket ==
    /\ HasNextChar
    /\ NextChar = "]"
    /\ Take(OnRightBracket(ParserState))

ParseUnknown ==
    /\ HasNextChar
    /\ NextChar \notin SimpleChars \cup {"[", "]"}
    /\ Take(OnUnknown(ParserState))

\* the iterator is exhausted
ParseEnd ==
    /\ parse_result = "parsing"
    /\ chars_pos = Len(input_chars)
    /\ parse_result' = OnEnd(ParserState).result
    /\ UNCHANGED <<input_chars, chars_pos, waiting_opening_jumps, instructions>>
    /\ UNCHANGED exec_vars

\* parse_instructions as a function of the whole text: what it returns, and
\* the vector when it returns Ok
OnChar(st, c) ==
    IF c \in SimpleChars THEN OnSimple(st, c)
    ELSE IF c = "[" THEN OnLeftBracket(st)
    ELSE IF c = "]" THEN OnRightBracket(st)
    ELSE OnUnknown(st)

RECURSIVE ParseLoop(_, _, _)
ParseLoop(st, text, k) ==
    IF st.result # "parsing" THEN st
    ELSE IF k > Len(text) THEN OnEnd(st)
    ELSE ParseLoop(OnChar(st, text[k]), text, k + 1)

ParseInstructions(text) ==
    ParseLoop([waiting |-> <<>>, instructions |-> <<>>, result |-> "parsing"],
              text, 1)

ExecIdle ==
    /\ exec_result = "idle"
    /\ overflow_checks = FALSE
    /\ maximum_iterations = 0
    /\ iterations = 0
    /\ memory = ZeroedMemory
    /\ memory_position = 0
    /\ next_instruction = 0
    /\ output = <<>>
    /\ input_log = <<>>
    /\ input_eof = FALSE
    /\ dispatched = 0

Init == ParseInit /\ ExecIdle

ParseNext ==
    \/ ParseSimple
    \/ ParseLeftBracket
    \/ ParseRightBracket
    \/ ParseUnknown
    \/ ParseEnd

\* ------------------------------------------------------------------------
\* execute_brainfuck
\* ------------------------------------------------------------------------

\* the call, on the vector parse_instructions returned
Call(budgets) ==
    /\ parse_result = "Ok"
    /\ exec_result = "idle"
    /\ exec_result' = "running"
    /\ maximum_iterations' \in budgets
    /\ overflow_checks' \in BOOLEAN
    /\ UNCHANGED <<iterations, memory, memory_position, next_instruction,
                   output, input_log, input_eof, dispatched>>
    /\ UNCHANGED parse_vars

ExecuteCall == Call(0..MaxIter)

\* variant: the range is 0..=maximum_iterations
LoopHasNextInclusive == iterations <= maximum_iterations

\* for _ in 0..maximum_iterations: the range has another value
LoopHasNext == iterations < maximum_iterations

\* variant: the end is recognised only exactly at instructions.len()
AtEndExactly == next_instruction = Len(instructions)

\* next_instruction >= instructions.len()
AtEnd == next_instruction >= Len(instructions)

\* instructions[next_instruction]; there is no instruction to be had from an
\* index outside the vector
Current ==
    IF next_instruction < Len(instructions)
    THEN At(instructions, next_instruction)
    ELSE [op |-> "IndexOutOfBounds"]

\* a loop iteration that gets past the end check with instruction `op`
Dispatching(op) ==
    /\ exec_result = "running"
    /\ LoopHasNext
    /\ ~AtEnd
    /\ Current.op = op

\* variant: the program counter is advanced past the next instruction
AdvanceSkipping ==
    /\ next_instruction' = next_instruction + 2
    /\ iterations' = iterations + 1
    /\ dispatched' = dispatched + 1
    /\ UNCHANGED exec_result

\* the iteration ends at `next_instruction += 1`
Advance ==
    /\ next_instruction' = next_instruction + 1
    /\ iterations' = iterations + 1
    /\ dispatched' = dispatched + 1
    /\ UNCHANGED exec_result

\* variant: the taken jump is followed by the increment
JumpToThenIncrement(target_position) ==
    /\ next_instruction' = target_position + 1
    /\ iterations' = iterations + 1
    /\ dispatched' = dispatched + 1
    /\ UNCHANGED exec_result

\* the iteration ends at `continue` after next_instruction = target_position
JumpTo(target_position) ==
    /\ next_instruction' = target_position
    /\ iterations' = iterations + 1
    /\ dispatched' = dispatched + 1
    /\ UNCHANGED exec_result

\* the iteration unwinds out of the call (a panic, or try! returning Err)
Abort(how) ==
    /\ exec_result' = how
    /\ iterations' = iterations + 1
    /\ dispatched' = dispatched + 1
    /\ UNCHANGED next_instruction

\* return Ok(AllInstructionsFinished)
StepFinished ==
    /\ exec_result = "running"
    /\ LoopHasNext
    /\ AtEnd
    /\ exec_result' = "AllInstructionsFinished"
    /\ iterations' = iterations + 1
    /\ UNCHANGED <<overflow_checks, maximum_iterations, memory, memory_position,
                   next_instruction, output, input_log, input_eof, dispatched>>
    /\ UNCHANGED parse_vars

\* the range is exhausted: return Ok(MaximumIterationsReached)
ReturnMaximum ==
    /\ exec_result = "running"
    /\ ~LoopHasNext
    /\ exec_result' = "MaximumIterationsReached"
    /\ UNCHANGED <<overflow_checks, maximum_iterations, iterations, memory,
                   memory_position, next_instruction, output, input_log,
                   input_eof, dispatched>>
    /\ UNCHANGED parse_vars

StepMoveRight ==
    /\ Dispatching("MoveRight")
    /\ memory_position' = MovedRight(memory_position)
    /\ Advance
    /\ UNCHANGED <<overflow_checks, maximum_iterations, memory, output,
                   input_log, input_eof>>
    /\ UNCHANGED parse_vars

StepMoveLeft ==
    /\ Dispatching("MoveLeft")
    /\ IF overflow_checks /\ MoveLeftOverflows(memory_position)
       THEN Abort("panic") /\ UNCHANGED memory_position
       ELSE memory_position' = MovedLeft(memory_position) /\ Advance
    /\ UNCHANGED <<overflow_checks, maximum_iterations, memory, output,
                   input_log, input_eof>>
    /\ UNCHANGED parse_vars

StepIncrement ==
    /\ Dispatching("Increment")
    /\ IF overflow_checks /\ IncrementOverflows(Cell(memory, memory_position))
       THEN Abort("panic") /\ UNCHANGED memory
       ELSE /\ memory' = Store(memory, memory_position,
                               Incremented(Cell(memory, memory_position)))
            /\ Advance
    /\ UNCHANGED <<overflow_checks, maximum_iterations, memory_position, output,
                   input_log, input_eof>>
    /\ UNCHANGED parse_vars

StepDecrement ==
    /\ Dispatching("Decrement")
    /\ IF overflow_checks /\ DecrementOverflows(Cell(memory, memory_position))
       THEN Abort("panic") /\ UNCHANGED memory
       ELSE /\ memory' = Store(memory, memory_position,
                               Decremented(Cell(memory, memory_position)))
            /\ Advance
    /\ UNCHANGED <<overflow_checks, maximum_iterations, memory_position, output,
                   input_log, input_eof>>
    /\ UNCHANGED parse_vars

\* the sink takes the whole character, or (a sink that can fail) fails after
\* taking part of it
Write(sink_can_fail) ==
    /\ Dispatching("Output")
    /\ LET bytes == CharBytes(Cell(memory, memory_position)) IN
       \E written \in (IF sink_can_fail THEN 0 ELSE Len(bytes))..Len(bytes) :
          /\ output' = output \o SubSeq(bytes, 1, written)
          /\ IF written = Len(bytes) THEN Advance ELSE Abort("IOError")
    /\ UNCHANGED <<overflow_checks, maximum_iterations, memory, memory_position,
                   input_log, input_eof>>
    /\ UNCHANGED parse_vars

StepOutput == Write(TRUE)

\* variant: a read of zero bytes uses up an iteration of the budget
ReadAgainCounted ==
    /\ input_eof' = TRUE
    /\ iterations' = iterations + 1
    /\ UNCHANGED <<exec_result, dispatched, memory, next_instruction, input_log>>

\* input.read returned Ok(0), as it will from now on: the inner loop goes
\* round, inside the same iteration of the for loop
ReadAgain ==
    /\ input_eof' = TRUE
    /\ UNCHANGED <<exec_result, iterations, dispatched, memory,
                   next_instruction, input_log>>

\* the read loop: reads that return Ok(0) repeat the read and change nothing;
\* once the source is exhausted every read returns Ok(0)
StepInput ==
    /\ Dispatching("Input")
    /\ ~input_eof
    /\ \/ \E byte \in InputBytes :       \* Ok(1): leave the loop, store the byte
             /\ memory' = Store(memory, memory_position, byte)
             /\ input_log' = Append(input_log, byte)
             /\ Advance
             /\ UNCHANGED input_eof
       \/ ReadAgain                       \* Ok(0): read again
       \/ /\ Abort("IOError")            \* Err: try! returns it
          /\ UNCHANGED <<memory, input_log, input_eof>>
    /\ UNCHANGED <<overflow_checks, maximum_iterations, memory_position, output>>
    /\ UNCHANGED parse_vars

\* variant: the loop is entered on a zero cell and skipped otherwise
SkipsLoopInverted(v) == v # 0

\* if memory[memory_position] == 0: the JumpToLeft is taken
SkipsLoop(v) == v = 0

\* variant: the loop is left on a non-zero cell and repeated on zero
RepeatsLoopInverted(v) == v = 0

\* if memory[memory_position] != 0: the JumpToRight is taken
RepeatsLoop(v) == v # 0

StepJumpToLeft ==
    /\ Dispatching("JumpToLeft")
    /\ IF SkipsLoop(Cell(memory, memory_position))
       THEN JumpTo(Current.target)
       ELSE Advance
    /\ UNCHANGED <<overflow_checks, maximum_iterations, memory, memory_position,
                   output, input_log, input_eof>>
    /\ UNCHANGED parse_vars

StepJumpToRight ==
    /\ Dispatching("JumpToRight")
    /\ IF RepeatsLoop(Cell(memory, memory_position))
       THEN JumpTo(Current.target)
       ELSE Advance
    /\ UNCHANGED <<overflow_checks, maximum_iterations, memory, memory_position,
                   output, input_log, input_eof>>
    /\ UNCHANGED parse_vars

ExecNext ==
    \/ ExecuteCall
    \/ StepFinished
    \/ ReturnMaximum
    \/ StepMoveRight
    \/ StepMoveLeft
    \/ StepIncrement
    \/ StepDecrement
    \/ StepOutput
    \/ StepInput
    \/ StepJumpToLeft
    \/ StepJumpToRight

Next == ParseNext \/ ExecNext

Spec == Init /\ [][Next]_vars

SpecParse == Init /\ [][ParseNext]_vars

\* the program of the crate's doc-test
HelloWorldText ==
    <<
       "+", "+", "+", "+", "+", "+", "+", "+", "[", ">", "+", "+", "+",
       "+", "[", ">", "+", "+", ">", "+", "+", "+", ">", "+", "+", "+",
       ">", "+", "<", "<", "<", "<", "-", "]", ">", "+", ">", "+", ">",
       "-", ">", ">", "+", "[", "<", "]", "<", "-", "]", ">", ">", ".",
       ">", "-", "-", "-", ".", "+", "+", "+", "+", "+", "+", "+", ".",
       ".", "+", "+", "+", ".", ">", ">", ".", "<", "-", ".", "<", ".",
       "+", "+", "+", ".", "-", "-", "-", "-", "-", "-", ".", "-", "-",
       "-", "-", "-", "-", "-", "-", ".", ">", ">", "+", ".", ">", "+",
       "+", "."
    >>

\* the budget the doc-test passes
HelloWorldBudget == 30000000

\* the doc-test: the text is parsed, then run with a Vec<u8> as the sink (its
\* writes never fail) and io::empty() as the source
HelloInit == ParseCall(HelloWorldText) /\ ExecIdle

HelloCall == Call({HelloWorldBudget})

HelloOutput == Write(FALSE)

HelloNext ==
    \/ ParseSimple
    \/ ParseLeftBracket
    \/ ParseRightBracket
    \/ ParseEnd
    \/ HelloCall
    \/ StepFinished
    \/ StepMoveRight
    \/ StepMoveLeft
    \/ StepIncrement
    \/ StepDecrement
    \/ HelloOutput
    \/ StepJumpToLeft
    \/ StepJumpToRight

SpecHello == HelloInit /\ [][HelloNext]_vars

\* programs that read: texts over ',' '+' '[' ']'
ReadingChars == {",", "+", "[", "]"}

ReadingInit ==
    /\ Init
    /\ \A i \in 1..Len(input_chars) : input_chars[i] \in ReadingChars

ReadingNext ==
    \/ ParseSimple
    \/ ParseLeftBracket
    \/ ParseRightBracket
    \/ ParseEnd
    \/ ExecuteCall
    \/ StepFinished
    \/ ReturnMaximum
    \/ StepIncrement
    \/ StepInput
    \/ StepJumpToLeft
    \/ StepJumpToRight

\* the thread that runs the two functions keeps running: a step that stays
\* possible is taken
SpecLive == ReadingInit /\ [][ReadingNext]_vars /\ WF_vars(ReadingNext)

\* ------------------------------------------------------------------------
\* Properties of parse_instructions
\* ------------------------------------------------------------------------

\* parse_instructions has returned
Parsed == parse_result # "parsing"

\* number of '[' minus number of ']' among the first k characters
Balance(text, k) ==
    Cardinality({i \in 1..k : text[i] = "["})
  - Cardinality({i \in 1..k : text[i] = "]"})

\* no ']' comes without an unmatched '[' before it
NoLoneRight(text) == \A k \in 0..Len(text) : Balance(text, k) >= 0

\* the '[' and ']' of the text are well-bracketed
WellBracketed(text) == NoLoneRight(text) /\ Balance(text, Len(text)) = 0

\* the '[' at position i of the text is never closed by a later ']'
NeverClosed(text, i) ==
    /\ text[i] = "["
    /\ \A j \in i..Len(text) : Balance(text, j) >= Balance(text, i)

\* every jump of the vector points at its partner, which points back
MutuallyLinked(v) ==
    \A i \in 0..(Len(v) - 1) :
       /\ IsJumpToLeft(At(v, i)) =>
             /\ At(v, i).target \in 0..(Len(v) - 1)
             /\ At(v, At(v, i).target) = JumpToRight(i)
       /\ IsJumpToRight(At(v, i)) =>
             /\ At(v, i).target \in 0..(Len(v) - 1)
             /\ At(v, At(v, i).target) = JumpToLeft(i)

\* C1: for every well-bracketed input parse_instructions returns Ok, and in
\* the vector returned every JumpToLeft at i carries the index j of a
\* JumpToRight that carries i, and every JumpToRight points back likewise.
C1_WellBracketedLinked ==
    (Parsed /\ WellBracketed(input_chars)) =>
        (parse_result = "Ok" /\ MutuallyLinked(instructions))

\* a nested pair of loops has been parsed
C1_Witness ==
    /\ parse_result = "Ok"
    /\ Len(instructions) >= 4
    /\ IsJumpToLeft(At(instructions, 0))
    /\ IsJumpToLeft(At(instructions, 1))

\* the position of the first ']' with no unmatched '[' before it
FirstLoneRight(text) ==
    CHOOSE k \in 1..Len(text) :
       /\ Balance(text, k) < 0
       /\ \A m \in 0..(k - 1) : Balance(text, m) >= 0

\* C2: parse_instructions returns UnbalancedRightBracket exactly when some
\* prefix of the input holds more ']' than '[', and it returns on taking the
\* first such ']', whatever follows it.
C2_LoneRightBracket ==
    /\ Parsed => (parse_result = "UnbalancedRightBracket"
                     <=> ~NoLoneRight(input_chars))
    /\ ~NoLoneRight(input_chars) =>
          /\ chars_pos <= FirstLoneRight(input_chars)
          /\ chars_pos = FirstLoneRight(input_chars)
                <=> parse_result = "UnbalancedRightBracket"

\* the error was returned with an unmatched '[' still to come
C2_Witness ==
    /\ parse_result = "UnbalancedRightBracket"
    /\ \E i \in (chars_pos + 1)..Len(input_chars) : input_chars[i] = "["

\* C3 as stated: every input with a '[' that no later ']' closes makes
\* parse_instructions return UnbalancedLeftBracket.
C3_Original ==
    (Parsed /\ \E i \in 1..Len(input_chars) : NeverClosed(input_chars, i)) =>
        parse_result = "UnbalancedLeftBracket"

\* C3 as amended: every input with a '[' that no later ']' closes, and with
\* no ']' lacking an unmatched '[' before it, makes parse_instructions return
\* UnbalancedLeftBracket; with such a ']' it returns UnbalancedRightBracket.
C3_UnclosedLeftBracket ==
    (Parsed /\ \E i \in 1..Len(input_chars) : NeverClosed(input_chars, i)) =>
        /\ NoLoneRight(input_chars) => parse_result = "UnbalancedLeftBracket"
        /\ ~NoLoneRight(input_chars) => parse_result = "UnbalancedRightBracket"

\* the error was returned for a text that also holds a closed loop
C3_Witness ==
    /\ parse_result = "UnbalancedLeftBracket"
    /\ Len(waiting_opening_jumps) >= 1
    /\ \E i \in 0..(Len(instructions) - 1) : IsJumpToRight(At(instructions, i))

\* the text without the characters the parser does not know
Recognized(text) ==
    SelectSeq(text, LAMBDA c : c \in SimpleChars \cup {"[", "]"})

\* the character an instruction is compiled from
CharOf(ins) ==
    CASE ins.op = "MoveRight" -> ">"
      [] ins.op = "MoveLeft" -> "<"
      [] ins.op = "Increment" -> "+"
      [] ins.op = "Decrement" -> "-"
      [] ins.op = "Output" -> "."
      [] ins.op = "Input" -> ","
      [] ins.op = "JumpToLeft" -> "["
      [] ins.op = "JumpToRight" -> "]"

\* C4: parse_instructions returns for a text what it returns for the text
\* with the unknown characters removed (the same error, or the same vector),
\* and a vector returned holds one instruction per known character, in order.
C4_UnknownIgnored ==
    Parsed =>
        LET known == Recognized(input_chars)
            ref == ParseInstructions(known) IN
        /\ parse_result = ref.result
        /\ parse_result = "Ok" =>
              /\ instructions = ref.instructions
              /\ Len(instructions) = Len(known)
              /\ \A i \in 1..Len(known) : CharOf(instructions[i]) = known[i]

\* a loop with an unknown character in it has been parsed
C4_Witness ==
    /\ parse_result = "Ok"
    /\ Len(instructions) >= 2
    /\ Len(instructions) < Len(input_chars)
    /\ IsJumpToLeft(At(instructions, 0))

\* ------------------------------------------------------------------------
\* Properties of execute_brainfuck
\* ------------------------------------------------------------------------

TerminationConditions == {"AllInstructionsFinished", "MaximumIterationsReached"}

\* execute_brainfuck is over: it returned, or it panicked
Ended == exec_result \notin {"idle", "running"}

\* the instructions of the vector with one of the given names
Holds(v, ops) == \E i \in 1..Len(v) : v[i].op \in ops

\* C5 as stated: whenever MaximumIterationsReached is returned the program
\* counter is strictly inside the instruction vector.
C5_Original ==
    exec_result = "MaximumIterationsReached" =>
        next_instruction < Len(instructions)

\* C5 as amended: whenever MaximumIterationsReached is returned, each of the
\* maximum_iterations iterations dispatched an instruction (none of them found
\* the program counter at or past the end), and the program counter is at
\* most the length of the vector, which it may equal; AllInstructionsFinished
\* is returned only by an iteration of the budget that finds the program
\* counter at or past the end.
C5_BudgetSpent ==
    /\ exec_result = "MaximumIterationsReached" =>
          /\ iterations = maximum_iterations
          /\ dispatched = maximum_iterations
          /\ next_instruction <= Len(instructions)
    /\ exec_result = "AllInstructionsFinished" =>
          /\ next_instruction >= Len(instructions)
          /\ dispatched < maximum_iterations
          /\ iterations = dispatched + 1

\* the budget ran out on the iteration that dispatched the last instruction
C5_Witness ==
    /\ exec_result = "MaximumIterationsReached"
    /\ maximum_iterations >= 2
    /\ next_instruction = Len(instructions)

\* C6 as stated: a program with more instructions than maximum_iterations
\* ends with MaximumIterationsReached, loops or not.
C6_Original ==
    (exec_result \in TerminationConditions
        /\ Len(instructions) > maximum_iterations) =>
        exec_result = "MaximumIterationsReached"

\* C6 as amended: a program without loops that has more instructions than
\* maximum_iterations never ends with AllInstructionsFinished; the
\* termination condition it returns is MaximumIterationsReached, with the
\* program counter at maximum_iterations, before the end of the vector.
C6_StraightLineBudget ==
    (exec_result \in TerminationConditions
        /\ ~Holds(instructions, {"JumpToLeft", "JumpToRight"})
        /\ Len(instructions) > maximum_iterations) =>
        /\ exec_result = "MaximumIterationsReached"
        /\ next_instruction = maximum_iterations
        /\ next_instruction < Len(instructions)

\* four instructions without a loop were cut off by a budget of three
C6_Witness ==
    /\ exec_result = "MaximumIterationsReached"
    /\ ~Holds(instructions, {"JumpToLeft", "JumpToRight"})
    /\ Len(instructions) = 4
    /\ maximum_iterations = 3

\* C7: MoveLeft at position 0 leaves the memory pointer at the last cell,
\* MoveRight at the last cell leaves it at 0, any other move changes it by
\* exactly one, and no move ends the execution.
C7_Original ==
    [][/\ StepMoveLeft =>
             /\ exec_result' = "running"
             /\ memory_position' = IF memory_position = 0
                                   THEN MEMORY_SIZE - 1
                                   ELSE memory_position - 1
       /\ StepMoveRight =>
             /\ exec_result' = "running"
             /\ memory_position' = IF memory_position = MEMORY_SIZE - 1
                                   THEN 0
                                   ELSE memory_position + 1]_vars

\* C8: Increment turns 255 into 0, Decrement turns 0 into 255, otherwise the
\* cell changes by exactly one, and neither ends the execution.
C8_Original ==
    [][/\ StepIncrement =>
             /\ exec_result' = "running"
             /\ Cell(memory', memory_position) =
                   IF Cell(memory, memory_position) = 255
                   THEN 0
                   ELSE Cell(memory, memory_position) + 1
       /\ StepDecrement =>
             /\ exec_result' = "running"
             /\ Cell(memory', memory_position) =
                   IF Cell(memory, memory_position) = 0
                   THEN 255
                   ELSE Cell(memory, memory_position) - 1]_vars

\* the program ",." has run to its end on a source that delivered one byte
Echoed ==
    /\ instructions = <<[op |-> "Input"], [op |-> "Output"]>>
    /\ exec_result = "AllInstructionsFinished"

\* C9 as stated: ",." writes exactly the byte read, whatever the byte.
C9_Original == Echoed => output = input_log

\* C9 as amended: ",." on a source that delivers the byte b writes the UTF-8
\* encoding of the character with code point b: the one byte b when b < 128
\* (65 is echoed as 65), the two bytes 192 + b / 64 and 128 + b mod 64 when
\* b >= 128.
C9_EchoesCharacter ==
    Echoed =>
        /\ Len(input_log) = 1
        /\ LET b == input_log[1] IN
           /\ b < 128 => output = <<b>>
           /\ b >= 128 => output = <<192 + (b \div 64), 128 + (b % 64)>>

\* the byte 65 was read and echoed
C9_Witness == Echoed /\ input_log = <<65>> /\ output = <<65>>

\* C10: a call on a vector without Input ends having dispatched at most
\* maximum_iterations instructions, with one of the two termination
\* conditions or an I/O error.
C10_Original ==
    /\ dispatched <= maximum_iterations
    /\ (Ended /\ ~Holds(instructions, {"Input"})) =>
          exec_result \in TerminationConditions \cup {"IOError"}

\* C11: an Input instruction reads until a read delivers a byte; reads of
\* zero bytes are no errors and use up no iteration, so once the source
\* delivers zero bytes for ever the call never returns (the budget is never
\* found spent), and while the source still delivers, the instruction
\* completes (or the read fails).
C11_InputBlocksUntilByte ==
    /\ [](input_eof =>
            [](exec_result = "running" /\ Dispatching("Input")))
    /\ \A n \in 0..(MaxIter + 1) :
          (Dispatching("Input") /\ ~input_eof /\ dispatched = n)
             ~> (input_eof \/ dispatched > n)

\* the source ran dry at an Input instruction that followed a completed one
C11_Witness ==
    /\ input_eof
    /\ exec_result = "running"
    /\ Len(input_log) >= 1

\* C12: an I/O failure is the only way execute_brainfuck fails: the call
\* ends with a termination condition or with the error of a write of an
\* Output instruction or a read of an Input instruction, at that instruction,
\* and a vector holding neither Output nor Input never fails.
C12_Original ==
    /\ Ended => exec_result \in TerminationConditions \cup {"IOError"}
    /\ exec_result = "IOError" =>
          /\ next_instruction < Len(instructions)
          /\ At(instructions, next_instruction).op \in {"Output", "Input"}
    /\ (Ended /\ ~Holds(instructions, {"Output", "Input"})) =>
          exec_result \in TerminationConditions

\* "Hello World!\n"
HelloWorldBytes == <<72, 101, 108, 108, 111, 32, 87, 111, 114, 108, 100, 33, 10>>

\* C13: the Hello World program, run with an empty source and a budget of
\* 30,000,000, ends only with AllInstructionsFinished, having written exactly
\* the bytes of "Hello World!\n"; until then it has written a prefix of them
\* and the budget is not spent.
C13_HelloWorld ==
    /\ Ended => (exec_result = "AllInstructionsFinished"
                    /\ output = HelloWorldBytes)
    /\ Len(output) <= Len(HelloWorldBytes)
    /\ output = SubSeq(HelloWorldBytes, 1, Len(output))
    /\ exec_result = "running" => iterations < maximum_iterations

\* the run is over and the thirteen bytes are in the sink
C13_Witness ==
    /\ exec_result = "AllInstructionsFinished"
    /\ Len(output) = 13
    /\ output[13] = 10

\* a step that dispatches an instruction and leaves the call running
CompletedDispatch ==
    /\ exec_result = "running"
    /\ exec_result' = "running"
    /\ dispatched' = dispatched + 1

\* C15: a dispatch of JumpToLeft(t) sets the program counter to t exactly
\* when the current cell is 0, a dispatch of JumpToRight(t) sets it to t
\* exactly when the cell is not 0, and every other dispatch that completes
\* (the six other instructions, a jump not taken) adds exactly 1 to it.
C15_ProgramCounterRule ==
    [][CompletedDispatch =>
          LET ins == At(instructions, next_instruction)
              cell == Cell(memory, memory_position) IN
          next_instruction' =
              IF IsJumpToLeft(ins) /\ cell = 0 THEN ins.target
              ELSE IF IsJumpToRight(ins) /\ cell # 0 THEN ins.target
              ELSE next_instruction + 1]_vars

\* a loop body has run and its JumpToRight, taken, has led back to the
\* JumpToLeft
C15_Witness ==
    /\ exec_result = "running"
    /\ dispatched >= 3
    /\ next_instruction < Len(instructions)
    /\ IsJumpToLeft(At(instructions, next_instruction))
    /\ Cell(memory, memory_position) # 0
    /\ iterations < maximum_iterations

\* ------------------------------------------------------------------------
\* Programs run long enough to go round a loop
\* ------------------------------------------------------------------------

\* long enough for a loop with two instructions in its body after one that
\* sets the cell
MaxLoopLen == 5

\* a budget that lets such a program go round its loop twice and end
MaxLoopIter == 10

\* the characters of programs that read, write, count and move on in a loop
LoopChars == {"+", "-", ".", ",", ">", "[", "]"}

LoopTexts == UNION {[1..k -> LoopChars] : k \in 0..MaxLoopLen}

LoopInit ==
    /\ \E text \in LoopTexts : ParseCall(text)
    /\ ExecIdle

\* the call with that budget: a run with a smaller budget is a prefix of it
LoopCall == Call({MaxLoopIter})

LoopNext ==
    \/ ParseSimple
    \/ ParseLeftBracket
    \/ ParseRightBracket
    \/ ParseEnd
    \/ LoopCall
    \/ StepFinished
    \/ ReturnMaximum
    \/ StepMoveRight
    \/ StepIncrement
    \/ StepDecrement
    \/ StepOutput
    \/ StepInput
    \/ StepJumpToLeft
    \/ StepJumpToRight

SpecLoop == LoopInit /\ [][LoopNext]_vars

\* ------------------------------------------------------------------------
\* A reference interpreter that matches brackets while it runs
\* ------------------------------------------------------------------------

\* number of '[' minus number of ']' in text[i..j]
Depth(text, i, j) ==
    Cardinality({k \in i..j : text[k] = "["})
  - Cardinality({k \in i..j : text[k] = "]"})

\* the ']' that closes the '[' at position i
ClosingOf(text, i) ==
    CHOOSE j \in (i + 1)..Len(text) :
       /\ Depth(text, i, j) = 0
       /\ \A k \in i..(j - 1) : Depth(text, i, k) > 0

\* the '[' that the ']' at position j closes
OpeningOf(text, j) ==
    CHOOSE i \in 1..(j - 1) : text[i] = "[" /\ ClosingOf(text, i) = j

\* one step of the reference interpreter on the character at st.at
RefStep(text, st) ==
    LET c == text[st.at]
        v == Cell(st.tape, st.pointer)
        next == [st EXCEPT !.at = st.at + 1] IN
    CASE c = ">" -> [next EXCEPT !.pointer = (st.pointer + 1) % MEMORY_SIZE]
      [] c = "<" -> [next EXCEPT
                        !.pointer = (st.pointer + MEMORY_SIZE - 1) % MEMORY_SIZE]
      [] c = "+" -> [next EXCEPT
                        !.tape = Store(st.tape, st.pointer, (v + 1) % 256)]
      [] c = "-" -> [next EXCEPT
                        !.tape = Store(st.tape, st.pointer, (v + 255) % 256)]
      [] c = "." -> [next EXCEPT !.printed = Append(st.printed, v)]
      [] c = "," -> [next EXCEPT
                        !.tape = Store(st.tape, st.pointer, Head(st.unread)),
                        !.unread = Tail(st.unread)]
      [] c = "[" -> IF v = 0
                    THEN [st EXCEPT !.at = ClosingOf(text, st.at) + 1]
                    ELSE next
      [] c = "]" -> IF v # 0
                    THEN [st EXCEPT !.at = OpeningOf(text, st.at) + 1]
                    ELSE next

\* the reference interpreter, run for at most `fuel` steps; it stops early at
\* the end of the text and at a ',' with nothing left to read
RECURSIVE RefRun(_, _, _)
RefRun(text, st, fuel) ==
    IF fuel = 0 \/ st.at > Len(text) THEN st
    ELSE IF text[st.at] = "," /\ st.unread = <<>> THEN st
    ELSE RefRun(text, RefStep(text, st), fuel - 1)

RefStart(bytes) ==
    [at |-> 1, tape |-> ZeroedMemory, pointer |-> 0, printed |-> <<>>,
     unread |-> bytes]

\* the bytes written for a sequence of printed cells
RECURSIVE Written(_)
Written(cells) ==
    IF cells = <<>> THEN <<>>
    ELSE CharBytes(Head(cells)) \o Written(Tail(cells))

\* C16: when a run of a parsed program ends with AllInstructionsFinished,
\* the reference interpreter, given the same text and the bytes the run has
\* read, reaches the end of the text within as many steps as the run
\* dispatched instructions, having read all the bytes, with the same cells
\* printed, the same tape and the same memory pointer.
C16_SameAsReference ==
    exec_result = "AllInstructionsFinished" =>
        LET text == Recognized(input_chars)
            ref == RefRun(text, RefStart(input_log), dispatched) IN
        /\ ref.at = Len(text) + 1
        /\ ref.unread = <<>>
        /\ output = Written(ref.printed)
        /\ memory = ref.tape
        /\ memory_position = ref.pointer

\* a program that reads a byte and then loops, writing in the loop: the run
\* dispatched more instructions than the vector holds, so a JumpToRight was
\* taken and the body ran again, and then it finished
C16_Witness ==
    /\ exec_result = "AllInstructionsFinished"
    /\ Len(instructions) >= 4
    /\ At(instructions, 0).op = "Input"
    /\ At(instructions, 1) = JumpToLeft(Len(instructions) - 1)
    /\ dispatched > Len(instructions)
    /\ output # <<>>

\* ------------------------------------------------------------------------
\* Frame conditions of a dispatch
\* ------------------------------------------------------------------------

\* the loop is about to run the body of the match on an instruction
AboutToDispatch ==
    /\ exec_result = "running"
    /\ LoopHasNext
    /\ ~AtEnd

\* every cell except the one at p is the same before and after the step
OtherCellsKept(p) ==
    \A q \in (DOMAIN memory \cup DOMAIN memory') \ {p} :
       Cell(memory', q) = Cell(memory, q)

\* output' is output with bytes appended
OutputAppended ==
    /\ Len(output') >= Len(output)
    /\ SubSeq(output', 1, Len(output)) = output

\* C17: a step that dispatches an instruction changes only what the
\* instruction is about: a move only the memory pointer; Increment,
\* Decrement and Input only the cell at the memory pointer; Output and the
\* jumps neither tape nor pointer; only Output appends to the sink, only
\* Input reads from the source, and the instructions stay as they are.
C17_FrameConditions ==
    [][AboutToDispatch =>
          LET op == Current.op IN
          /\ instructions' = instructions
          /\ op \in {"MoveRight", "MoveLeft"} => memory' = memory
          /\ op \in {"Increment", "Decrement", "Input"} =>
                /\ memory_position' = memory_position
                /\ OtherCellsKept(memory_position)
          /\ op \in {"Output", "JumpToLeft", "JumpToRight"} =>
                /\ memory' = memory
                /\ memory_position' = memory_position
          /\ IF op = "Output" THEN OutputAppended ELSE output' = output
          /\ op # "Input" => input_log' = input_log /\ input_eof' = input_eof
    ]_vars

\* two cells have been changed by dispatches, the pointer has moved on from
\* both, and the loop goes on
C17_Witness ==
    /\ exec_result = "running"
    /\ Cardinality(DOMAIN memory) >= 2
    /\ memory_position \notin DOMAIN memory
    /\ dispatched >= 4

\* ------------------------------------------------------------------------
\* Structure of the vector parse_instructions returns
\* ------------------------------------------------------------------------

\* the positions of the JumpToLeft instructions of v
Openings(v) == {i \in 0..(Len(v) - 1) : IsJumpToLeft(At(v, i))}

\* the ranges [a, target of a] and [c, target of c] lie apart or one inside
\* the other
NestedOrDisjoint(v, a, c) ==
    LET b == At(v, a).target
        d == At(v, c).target IN
    a < c => (b < c \/ d < b)

\* C18: in a vector parse_instructions returns, each JumpToLeft points
\* forward and each JumpToRight backward, every target is a position of the
\* vector, each ']' is paired with the '[' it points at, and the ranges of
\* any two pairs are nested or disjoint.
C18_ParsedStructure ==
    (exec_result = "idle" /\ parse_result = "Ok") =>
        LET v == instructions IN
        /\ \A i \in 0..(Len(v) - 1) :
              /\ IsJumpToLeft(At(v, i)) =>
                    /\ At(v, i).target > i
                    /\ At(v, i).target < Len(v)
                    /\ At(v, At(v, i).target) = JumpToRight(i)
              /\ IsJumpToRight(At(v, i)) =>
                    /\ At(v, i).target < i
                    /\ At(v, i).target >= 0
                    /\ IsJumpToLeft(At(v, At(v, i).target))
        /\ \A a \in Openings(v), c \in Openings(v) : NestedOrDisjoint(v, a, c)

\* a vector with one loop inside another
C18_Witness ==
    /\ parse_result = "Ok"
    /\ \E a \in Openings(instructions), c \in Openings(instructions) :
          a < c /\ At(instructions, c).target < At(instructions, a).target

\* ------------------------------------------------------------------------
\* Positions stay in range
\* ------------------------------------------------------------------------

\* C19: while a vector returned by the parser is executed, and after, the
\* memory pointer is a position of the tape, every cell written is a
\* position of the tape, and the program counter is at most the length of
\* the vector.
C19_PositionsInRange ==
    /\ memory_position \in 0..(MEMORY_SIZE - 1)
    /\ \A p \in DOMAIN memory : p \in 0..(MEMORY_SIZE - 1)
    /\ next_instruction \in 0..Len(instructions)

\* the pointer has wrapped to the last cell, that cell has been written, and
\* the program counter stands at the end of the vector
C19_Witness ==
    /\ exec_result = "running"
    /\ memory_position = MEMORY_SIZE - 1
    /\ memory_position \in DOMAIN memory
    /\ next_instruction = Len(instructions)
    /\ dispatched >= 2

\* ------------------------------------------------------------------------
\* execute_brainfuck on a vector the caller built
\* ------------------------------------------------------------------------

MaxBuiltLen == 2

\* the instructions a caller can put in a vector, jump targets up to `top`
AnyInstruction(top) ==
    {SimpleInstruction(c) : c \in SimpleChars}
    \cup {JumpToLeft(t) : t \in 0..top}
    \cup {JumpToRight(t) : t \in 0..top}

\* vectors of up to MaxBuiltLen instructions whose jump targets reach past
\* the end
BuiltVectors ==
    UNION {[1..n -> AnyInstruction(MaxBuiltLen + 1)] : n \in 0..MaxBuiltLen}

\* parse_instructions is not called: the caller constructs the vector
BuiltInit ==
    /\ input_chars = <<>>
    /\ chars_pos = 0
    /\ waiting_opening_jumps = <<>>
    /\ instructions \in BuiltVectors
    /\ parse_result = "none"
    /\ ExecIdle

\* the call, on the vector the caller built
CallBuilt ==
    /\ parse_result = "none"
    /\ exec_result = "idle"
    /\ exec_result' = "running"
    /\ maximum_iterations' \in 0..MaxIter
    /\ overflow_checks' \in BOOLEAN
    /\ UNCHANGED <<iterations, memory, memory_position, next_instruction,
                   output, input_log, input_eof, dispatched>>
    /\ UNCHANGED parse_vars

BuiltNext ==
    \/ CallBuilt
    \/ StepFinished
    \/ ReturnMaximum
    \/ StepMoveRight
    \/ StepMoveLeft
    \/ StepIncrement
    \/ StepDecrement
    \/ StepOutput
    \/ StepInput
    \/ StepJumpToLeft
    \/ StepJumpToRight

SpecBuilt == BuiltInit /\ [][BuiltNext]_vars

\* the program counter is at or past the end and the budget is not spent
PastEndWithBudget ==
    /\ exec_result = "running"
    /\ LoopHasNext
    /\ next_instruction >= Len(instructions)

\* a step of the loop other than the two returns: it has fetched
\* instructions[next_instruction]
Fetched ==
    /\ exec_result = "running"
    /\ \/ dispatched' # dispatched
       \/ input_eof' # input_eof

\* C20: on any vector, with jump targets inside it or past its end, a step
\* fetches an instruction only at a program counter inside the vector, and
\* with the program counter at or past the end and budget left the next
\* step is possible and returns AllInstructionsFinished.
C20_SafeOnAnyVector ==
    /\ [](PastEndWithBudget => ENABLED StepFinished)
    /\ [][PastEndWithBudget => exec_result' = "AllInstructionsFinished"]_vars
    /\ [][Fetched => next_instruction < Len(instructions)]_vars

\* a taken jump went past the end of the vector, and the call returned
\* AllInstructionsFinished
C20_Witness ==
    /\ exec_result = "AllInstructionsFinished"
    /\ next_instruction > Len(instructions)
    /\ dispatched >= 1

====
